---------------------------- MODULE Spec2Model ----------------------------
(***************************************************************************)
(* Model of better-jamf-policy-deferral.py: the prompt-mode Scheduler and  *)
(* the cleanup-mode Reaper working on the LaunchDaemon record files of     *)
(* /Library/LaunchDaemons, with the dialog tool (jamfHelper), the console  *)
(* session, the running applications, the file system calls and launchctl  *)
(* as the environment.                                                     *)
(***************************************************************************)
EXTENDS Integers, Sequences, FiniteSets, TLC

(***************************************************************************)
(* Configuration (lines 32-83 of the script).                              *)
(***************************************************************************)
DEFAULT_LD_LABEL == "com.contoso.deferred-policy"

DEFAULT_LD_JAMF_TRIGGER == "trigger_for_deferred_policy"

BLOCKING_APPS == <<"Keynote", "Microsoft PowerPoint">>

\* The offered delays, as the strings of digits the script configures.
GUI_DEFER_OPTIONS ==
  << <<"3","0","0">>, <<"0">>, <<"1","8","0","0">>, <<"3","6","0","0">>,
     <<"1","4","4","0","0">>, <<"4","3","2","0","0">>,
     <<"6","0","4","8","0","0">> >>

\* error_values of display_prompt.
error_values ==
  << <<"2">>, <<"3">>, <<"2","3","9">>, <<"2","4","3">>, <<"2","5","0">>,
     <<"2","5","5">> >>

\* Python's None, and a value that is present.
None == <<>>

Some(x) == <<x>>

(***************************************************************************)
(* Bounds of the model.                                                    *)
(***************************************************************************)
\* How many invocations of the script a behaviour starts.
MaxInvocations == 3

\* How many times the wall clock advances between steps of the script.
MaxTicks == 1

\* The seconds the wall clock advances in one tick.
TickSeconds == {45}
MaxOutput == 260

(***************************************************************************)
(* Wall-clock time.  An instant is a number of seconds since               *)
(* 2023-01-01 00:00:00 local time; datetime arithmetic on naive local      *)
(* datetimes is plain arithmetic on that count.                            *)
(***************************************************************************)
IsLeap(y) == (y % 4 = 0 /\ y % 100 # 0) \/ y % 400 = 0

DaysInYear(y) == IF IsLeap(y) THEN 366 ELSE 365

DaysInMonth(y, m) ==
  IF m = 2 THEN (IF IsLeap(y) THEN 29 ELSE 28)
  ELSE IF m \in {4, 6, 9, 11} THEN 30 ELSE 31

RECURSIVE DaysBeforeYear(_)
DaysBeforeYear(y) ==
  IF y <= 2023 THEN 0 ELSE DaysBeforeYear(y - 1) + DaysInYear(y - 1)

RECURSIVE DaysBeforeMonth(_, _)
DaysBeforeMonth(y, m) ==
  IF m <= 1 THEN 0 ELSE DaysBeforeMonth(y, m - 1) + DaysInMonth(y, m - 1)

\* datetime(y, mo, d, h, mi, s) as an instant.
Instant(y, mo, d, h, mi, s) ==
  (DaysBeforeYear(y) + DaysBeforeMonth(y, mo) + (d - 1)) * 86400
    + h * 3600 + mi * 60 + s

\* The calendar fields of an instant, found by walking years, then months.
RECURSIVE YearOfDay(_, _)
YearOfDay(days, y) ==
  IF days < DaysInYear(y) THEN <<y, days>>
  ELSE YearOfDay(days - DaysInYear(y), y + 1)

RECURSIVE MonthOfDay(_, _, _)
MonthOfDay(days, y, m) ==
  IF days < DaysInMonth(y, m) THEN <<m, days + 1>>
  ELSE MonthOfDay(days - DaysInMonth(y, m), y, m + 1)

Fields(t) ==
  LET yd == YearOfDay(t \div 86400, 2023)
      md == MonthOfDay(yd[2], yd[1], 1)
      sod == t % 86400
  IN [year |-> yd[1], month |-> md[1], day |-> md[2],
      hour |-> sod \div 3600, minute |-> (sod % 3600) \div 60,
      second |-> sod % 60]

MonthName(m) ==
  << "January", "February", "March", "April", "May", "June", "July",
     "August", "September", "October", "November", "December" >>[m]

\* strftime("%B %-d at %-I:%M %p"): month name, day without padding, hour on
\* the 12-hour clock without padding, minute padded to two digits, AM or PM.
FormatDate(f) ==
  [B |-> MonthName(f.month),
   d |-> f.day,
   I |-> IF f.hour % 12 = 0 THEN 12 ELSE f.hour % 12,
   M |-> <<f.minute \div 10, f.minute % 10>>,
   p |-> IF f.hour < 12 THEN "AM" ELSE "PM"]

\* A conversion that rounds up to the next minute.
calculate_deferment_next_minute(add_seconds, now) ==
  LET future == Fields(now + add_seconds + 60)
  IN << future.day, future.hour, future.minute, FormatDate(future) >>

\* A conversion that leaves the delay out.
calculate_deferment_now(add_seconds, now) ==
  LET future == Fields(now)
  IN << future.day, future.hour, future.minute, FormatDate(future) >>

\* calculate_deferment(add_seconds), with the datetime.now() it reads.
calculate_deferment(add_seconds, now) ==
  LET future == Fields(now + add_seconds)
  IN << future.day, future.hour, future.minute, FormatDate(future) >>


(***************************************************************************)
(* Decoding of the dialog tool's output (display_prompt).                  *)
(***************************************************************************)
DigitValue ==
  ("0" :> 0) @@ ("1" :> 1) @@ ("2" :> 2) @@ ("3" :> 3) @@ ("4" :> 4) @@
  ("5" :> 5) @@ ("6" :> 6) @@ ("7" :> 7) @@ ("8" :> 8) @@ ("9" :> 9)

IsDigit(c) == c \in DOMAIN DigitValue

IsSpace(c) == c \in {" ", "\n"}

InList(x, list) == \E i \in 1..Len(list) : list[i] = x

RECURSIVE LStrip(_)
LStrip(s) ==
  IF s # <<>> /\ IsSpace(Head(s)) THEN LStrip(Tail(s)) ELSE s

RECURSIVE RStrip(_)
RStrip(s) ==
  IF s # <<>> /\ IsSpace(s[Len(s)]) THEN RStrip(SubSeq(s, 1, Len(s) - 1))
  ELSE s

RECURSIVE DigitsValue(_)
DigitsValue(s) ==
  IF s = <<>> THEN 0
  ELSE DigitsValue(SubSeq(s, 1, Len(s) - 1)) * 10 + DigitValue[s[Len(s)]]

\* Python's int(str): surrounding whitespace is ignored, one sign is allowed,
\* the rest must be one or more digits; anything else raises ValueError,
\* modelled as None.
PyInt(s) ==
  LET t == RStrip(LStrip(s))
      signed == t # <<>> /\ Head(t) \in {"+", "-"}
      body == IF signed THEN Tail(t) ELSE t
  IN IF body = <<>> \/ \E i \in 1..Len(body) : ~IsDigit(body[i]) THEN None
     ELSE IF signed /\ Head(t) = "-" THEN Some(0 - DigitsValue(body))
     ELSE Some(DigitsValue(body))

\* The decimal digits of a natural number, as the dialog tool prints it.
RECURSIVE NatDigits(_)
NatDigits(n) ==
  LET last == CHOOSE c \in DOMAIN DigitValue : DigitValue[c] = n % 10
  IN IF n < 10 THEN <<last>> ELSE Append(NatDigits(n \div 10), last)

\* What the dialog tool prints when the user picks an offered option and
\* presses button 1: the option followed by the button, as an integer, so a
\* leading zero is dropped ('01' is printed as '1').
OptionOutput(option) == NatDigits(DigitsValue(Append(option, "1")))

\* Outputs of the dialog tool that are neither a choice nor an error value:
\* nothing at all, and text that is not a number.
JunkOutputs == { <<>>, <<"x", "1">> }

\* What launching the dialog tool can give: the launch raises, or the tool
\* runs and prints something.
HelperResults ==
  { [raised |-> TRUE, out |-> <<>>] } \cup
  { [raised |-> FALSE, out |-> o] :
      o \in { OptionOutput(GUI_DEFER_OPTIONS[i]) : i \in 1..Len(GUI_DEFER_OPTIONS) }
            \cup { error_values[i] : i \in 1..Len(error_values) }
            \cup JunkOutputs }

\* The dialog tool prints its return value, a non-negative integer: every
\* value up to MaxOutput (all the error values are among them), the outputs
\* of the options, and nothing at all.
ToolResults ==
  { [raised |-> TRUE, out |-> <<>>] } \cup
  { [raised |-> FALSE, out |-> o] :
      o \in { NatDigits(n) : n \in 0..MaxOutput }
            \cup { OptionOutput(GUI_DEFER_OPTIONS[i]) : i \in 1..Len(GUI_DEFER_OPTIONS) }
            \cup { <<>> } }

\* A decoding that keeps the digit of the button.
display_prompt_keep_button(result) ==
  IF result.raised THEN None
  ELSE IF ~InList(result.out, error_values)
       THEN IF result.out = <<"1">> THEN Some(0)
            ELSE PyInt(result.out)
       ELSE None

\* A decoding that does not look for the error values.
display_prompt_no_error_values(result) ==
  IF result.raised THEN None
  ELSE IF result.out = <<"1">> THEN Some(0)
  ELSE PyInt(SubSeq(result.out, 1, Len(result.out) - 1))

\* A decoding without the special case of '1'.
display_prompt_no_start_now(result) ==
  IF result.raised THEN None
  ELSE IF ~InList(result.out, error_values)
       THEN PyInt(SubSeq(result.out, 1, Len(result.out) - 1))
       ELSE None

\* display_prompt(): the number of seconds chosen, or None.
display_prompt(result) ==
  IF result.raised THEN None
  ELSE IF ~InList(result.out, error_values)
       THEN IF result.out = <<"1">> THEN Some(0)
            ELSE PyInt(SubSeq(result.out, 1, Len(result.out) - 1))
       ELSE None

(***************************************************************************)
(* Argument parsing (build_argparser) and the guards.                      *)
(***************************************************************************)
\* customAction.__call__ of choices_with_default: values is None when the
\* argument is omitted.
choices_with_default(choices, default, values) ==
  IF values # None /\ (values[1] \in choices \/ values[1] = default)
  THEN values[1] ELSE default

\* The script's arguments after the three leading parameters it ignores:
\* [mode] [label] [trigger], each given, blank or left out.
Argvs ==
  { <<>>,
    <<"prompt", "", "">>,
    <<"", "test.pending", "nightly_updates">>,
    <<"cleanup">>,
    <<"cleanup", "">>,
    <<"cleanup", "test.pending">>,
    <<"restart", "test.pending", "nightly_updates">> }

build_argparser(argv) ==
  [mode |-> choices_with_default({"prompt", "cleanup"}, "prompt",
                                 IF Len(argv) >= 1 THEN Some(argv[1]) ELSE None),
   launchdaemon_label |-> IF Len(argv) >= 2 THEN argv[2] ELSE DEFAULT_LD_LABEL,
   jamf_trigger |-> IF Len(argv) >= 3 THEN argv[3] ELSE DEFAULT_LD_JAMF_TRIGGER]

\* ld_label of main.
LdLabel(args) ==
  IF args.launchdaemon_label = "" THEN DEFAULT_LD_LABEL
  ELSE args.launchdaemon_label

\* One path for every label.
LdPathShared(ld_label) ==
  <<"/Library/LaunchDaemons", DEFAULT_LD_LABEL, ".plist">>

\* os.path.join('/Library/LaunchDaemons', '{}.plist'.format(ld_label)).
LdPath(ld_label) == <<"/Library/LaunchDaemons", ld_label, ".plist">>

\* policy_trigger of main.
PolicyTrigger(args) ==
  IF args.jamf_trigger = "" THEN DEFAULT_LD_JAMF_TRIGGER
  ELSE args.jamf_trigger

\* The sets of running application names the workspace may report.
RunningAppSets ==
  { {"Finder", "keynote"}, {"Finder", "Keynote"},
    {"Microsoft PowerPoint", "Safari"} }

\* A detection that stops at the first name of the list.
detect_blocking_apps_first(running_apps) == BLOCKING_APPS[1] \in running_apps

\* detect_blocking_apps(), on the names get_running_apps() returns.
detect_blocking_apps(running_apps) ==
  \E i \in 1..Len(BLOCKING_APPS) : BLOCKING_APPS[i] \in running_apps

\* SCDynamicStoreCopyConsoleUser(None, None, None)[0]: None with nobody
\* logged in.
ConsoleUsers == { None, Some("alice") }

(***************************************************************************)
(* State.                                                                  *)
(***************************************************************************)
VARIABLES
  files,    \* the record files: path -> [plist]; absent paths are not in the domain
  loaded,   \* the paths whose job launchd has registered
  clock,    \* the wall clock
  inv,      \* per invocation slot: the position and the local variables of main()
  prev,     \* what the invocation that ran before the current one did
  started,  \* invocations started so far
  ticks,    \* clock advances so far
  orphans   \* the paths whose record a failed persistence left behind, with
            \* no cleanup for the path begun since

vars == <<files, loaded, clock, inv, prev, started, ticks, orphans>>

\* Invocation slots; one is in use when invocations run to completion.
Procs == {1, 2}

\* The instant a behaviour of Spec begins at, and the instants a behaviour
\* of SpecClock may begin at: ends of months and of a year, a leap day, noon
\* and midnight.
StartInstants == { Instant(2023, 1, 31, 23, 59, 30) }

ClockInstants ==
  { Instant(2023, 1, 31, 23, 59, 30), Instant(2023, 2, 25, 12, 30, 0),
    Instant(2024, 2, 28, 11, 59, 40), Instant(2023, 4, 30, 0, 0, 10),
    Instant(2023, 12, 31, 23, 58, 50), Instant(2024, 12, 25, 0, 7, 59) }

\* The instants a behaviour of SpecInputs may begin at: in every month of a
\* common year and of a leap year, the first second, the last second, and
\* two instants less than a week before the end of the shortest month.
InputInstants ==
  UNION { { Instant(y, m, 1, 0, 0, 0),
            Instant(y, m, 22, 9, 15, 59),
            Instant(y, m, 25, 12, 30, 15),
            Instant(y, m, DaysInMonth(y, m), 23, 59, 59) } :
          y \in {2023, 2024}, m \in 1..12 }

Exists(path) == path \in DOMAIN files

\* The local state of an invocation that has not begun.  Besides the local
\* variables of main() it keeps what the invocation met: the files, the
\* registered jobs and the records left behind when it began (at_start),
\* the dialog tool's answer (helper), the instant datetime.now() returned
\* (read_at), the answers of
\* the file system and launchctl (env), the calls write_launchdaemon made
\* (calls), the dialogs invoked (dialogs), the message printed on a denial
\* (denial) or by the cleanup (result), and the exit status (exit).
IdleInv ==
  [pc |-> "idle",
   args |-> [mode |-> "", launchdaemon_label |-> "", jamf_trigger |-> ""],
   ld_label |-> "", ld_path |-> <<>>,
   at_start |-> [files |-> <<>>, loaded |-> {}, orphans |-> {}],
   consoleuser |-> None, running_apps |-> None, helper |-> None,
   secs |-> None, policy_trigger |-> "", daemon |-> None,
   datestring |-> None, read_at |-> None, env |-> None, calls |-> <<>>,
   dialogs |-> <<>>, denial |-> "", result |-> "", uncaught |-> FALSE,
   exit |-> None]

NoPrev == [mode |-> "", ld_path |-> <<>>, result |-> ""]

\* Whether the record of the invocation's label existed when it began.
ExistedAtStart(i) == i.ld_path \in DOMAIN i.at_start.files

\* What is remembered of a finished invocation: for a cleanup that began with
\* the record present, its path and what it reported.
Summary(i) ==
  IF i.pc = "done" /\ i.args.mode = "cleanup" /\ ExistedAtStart(i)
  THEN [mode |-> "cleanup", ld_path |-> i.ld_path, result |-> i.result]
  ELSE NoPrev

\* An exit that reports success whatever the code.
ExitSuccess(i, code) == [i EXCEPT !.pc = "done", !.exit = Some(0)]

\* sys.exit(code).
Exit(i, code) == [i EXCEPT !.pc = "done", !.exit = Some(code)]

Dialog(kind, date) == [kind |-> kind, date |-> date]

\* display_error(): check_output raises when the dialog tool cannot be
\* launched, which nothing catches: the interpreter exits with status 1.
display_error(i) ==
  [i EXCEPT !.dialogs = Append(@, Dialog("error", None)),
            !.uncaught = (i.helper # None /\ i.helper[1].raised)]

\* display_confirm(start_date).
display_confirm(i, start_date) ==
  [i EXCEPT !.dialogs = Append(@, Dialog("confirm", Some(start_date)))]

(***************************************************************************)
(* main(): lines 302-314, the arguments and the path of the record.        *)
(***************************************************************************)
Start(p, argv) ==
  LET args == build_argparser(argv)
      ld_label == LdLabel(args)
      ld_path == LdPath(ld_label)
  IN /\ started < MaxInvocations
     /\ inv[p].pc \in {"idle", "done"}
     /\ inv' = [inv EXCEPT ![p] =
                  [IdleInv EXCEPT !.pc = IF args.mode = "prompt"
                                         THEN "check_user" ELSE "cleanup",
                                  !.args = args,
                                  !.ld_label = ld_label,
                                  !.ld_path = ld_path,
                                  !.at_start = [files |-> files,
                                                loaded |-> loaded,
                                                orphans |-> orphans]]]
     /\ prev' = Summary(inv[p])
     /\ started' = started + 1
     /\ UNCHANGED <<files, loaded, clock, ticks, orphans>>

(***************************************************************************)
(* Prompt mode: the guards, lines 316-331.                                 *)
(***************************************************************************)
\* Guards in another order: the record is looked for before the session.
CheckUserAfterRecord(p) ==
  /\ inv[p].pc = "check_user"
  /\ IF Exists(inv[p].ld_path)
     THEN inv' = [inv EXCEPT ![p] =
                    Exit([@ EXCEPT !.denial = "already_deferred"], 1)]
     ELSE \E consoleuser \in ConsoleUsers :
            inv' = [inv EXCEPT ![p] =
                      IF consoleuser = None
                      THEN Exit([@ EXCEPT !.consoleuser = consoleuser,
                                          !.denial = "no_session"], 1)
                      ELSE [@ EXCEPT !.consoleuser = consoleuser,
                                     !.pc = "check_exists"]]
  /\ UNCHANGED <<files, loaded, clock, prev, started, ticks, orphans>>

CheckUser(p) ==
  /\ inv[p].pc = "check_user"
  /\ \E consoleuser \in ConsoleUsers :
       inv' = [inv EXCEPT ![p] =
                 IF consoleuser = None
                 THEN Exit([@ EXCEPT !.consoleuser = consoleuser,
                                     !.denial = "no_session"], 1)
                 ELSE [@ EXCEPT !.consoleuser = consoleuser,
                                !.pc = "check_exists"]]
  /\ UNCHANGED <<files, loaded, clock, prev, started, ticks, orphans>>

\* A guard that never finds the record.
AlreadyDeferredNever(path) == FALSE

\* os.path.exists(ld_path) of line 324.
AlreadyDeferred(path) == Exists(path)

CheckExists(p) ==
  /\ inv[p].pc = "check_exists"
  /\ inv' = [inv EXCEPT ![p] =
               IF AlreadyDeferred(inv[p].ld_path)
               THEN Exit([@ EXCEPT !.denial = "already_deferred"], 1)
               ELSE [@ EXCEPT !.pc = "check_apps"]]
  /\ UNCHANGED <<files, loaded, clock, prev, started, ticks, orphans>>

CheckApps(p) ==
  /\ inv[p].pc = "check_apps"
  /\ \E running_apps \in RunningAppSets :
       inv' = [inv EXCEPT ![p] =
                 IF detect_blocking_apps(running_apps)
                 THEN Exit([@ EXCEPT !.running_apps = Some(running_apps),
                                     !.denial = "blocked_by_app"], 1)
                 ELSE [@ EXCEPT !.running_apps = Some(running_apps),
                                !.pc = "prompt"]]
  /\ UNCHANGED <<files, loaded, clock, prev, started, ticks, orphans>>

(***************************************************************************)
(* Prompt mode: the dialog, lines 333-338.                                 *)
(***************************************************************************)
\* Lines 334-338 for an invocation with locals i, given what the launch of
\* the dialog tool gave.
Prompted(i, result) ==
  LET secs == display_prompt(result)
      shown == [i EXCEPT !.helper = Some(result),
                         !.secs = secs,
                         !.dialogs = Append(@, Dialog("prompt", None))]
  IN IF secs = None THEN Exit(display_error(shown), 1)
     ELSE [shown EXCEPT !.pc = "build"]

Prompt(p) ==
  /\ inv[p].pc = "prompt"
  /\ \E result \in HelperResults :
       inv' = [inv EXCEPT ![p] = Prompted(inv[p], result)]
  /\ UNCHANGED <<files, loaded, clock, prev, started, ticks, orphans>>

(***************************************************************************)
(* Prompt mode: the job definition, lines 340-371.                         *)
(***************************************************************************)
\* The daemon dictionary of lines 350-358.
Daemon(args, policy_trigger) ==
  [Label |-> args.launchdaemon_label,
   UserName |-> "root",
   GroupName |-> "wheel",
   LaunchOnlyOnce |-> TRUE,
   ProgramArguments |-> <<"/usr/local/bin/jamf", "policy", "-event",
                          policy_trigger>>]

\* A confirmation that is left out for the default option.
ShowConfirmLong(secs) == secs > 300

\* Line 376: the confirmation is shown for a deferral.
ShowConfirm(secs) == secs > 0

\* Lines 360-371: the start of the job, from the user's choice.
WithSchedule(daemon, secs, deferment) ==
  IF secs = 0
  THEN ("RunAtLoad" :> TRUE) @@ daemon
  ELSE ("StartCalendarInterval" :>
          [Day |-> deferment[1], Hour |-> deferment[2],
           Minute |-> deferment[3]]) @@ daemon

Build(p) ==
  /\ inv[p].pc = "build"
  /\ LET secs == inv[p].secs[1]
         policy_trigger == PolicyTrigger(inv[p].args)
         deferment == calculate_deferment(secs, clock)
     IN inv' = [inv EXCEPT ![p] =
                  [@ EXCEPT !.pc = "persist",
                            !.policy_trigger = policy_trigger,
                            !.daemon = Some(WithSchedule(
                                         Daemon(inv[p].args, policy_trigger),
                                         secs, deferment)),
                            !.datestring = IF secs = 0 THEN None
                                           ELSE Some(deferment[4]),
                            !.read_at = IF secs = 0 THEN None
                                        ELSE Some(clock)]]
  /\ UNCHANGED <<files, loaded, clock, prev, started, ticks, orphans>>

(***************************************************************************)
(* write_launchdaemon, lines 261-296.  What the file system and launchctl  *)
(* answer is drawn by the caller: env.write is "written", "open_failed"    *)
(* (IOError before the file is created or truncated) or "dump_failed"      *)
(* (IOError after it); env.chmod and env.chown say whether the call        *)
(* succeeds; env.returncode is launchctl's exit status.  The script runs   *)
(* as root with the usual umask, so a file it creates already has the mode *)
(* and the owner that chmod and chown set: the two calls change nothing    *)
(* but the result.                                                         *)
(***************************************************************************)
WriteOutcomes == {"written", "open_failed", "dump_failed"}

Returncodes == {0, 1}

PersistEnvs ==
  [write : WriteOutcomes, chmod : BOOLEAN, chown : BOOLEAN,
   returncode : Returncodes]

\* A write that creates the file only when there is none and leaves an
\* existing one as it is.
AfterWriteExclusive(job_definition, path, fs, env) ==
  IF path \in DOMAIN fs THEN fs
  ELSE IF env.write = "written"
  THEN (path :> [plist |-> Some(job_definition)]) @@ fs
  ELSE IF env.write = "dump_failed"
  THEN (path :> [plist |-> None]) @@ fs
  ELSE fs

\* The file system after lines 266-271.
AfterWrite(job_definition, path, fs, env) ==
  IF env.write = "written"
  THEN (path :> [plist |-> Some(job_definition)]) @@ fs
  ELSE IF env.write = "dump_failed"
  THEN (path :> [plist |-> None]) @@ fs
  ELSE fs

\* chmod and chown of a path that does not exist fail.
Feasible(path, fs, env) ==
  LET fs1 == AfterWrite(<<>>, path, fs, env)
  IN (env.chmod \/ env.chown) => path \in DOMAIN fs1

\* The registered jobs after launchctl load (lines 287-290): the job is
\* registered when launchctl reports success on a complete file.
AfterLoad(path, fs, ld, env) ==
  IF env.returncode = 0 /\ path \in DOMAIN fs /\ fs[path].plist # None
  THEN ld \cup {path} ELSE ld

\* A write_launchdaemon that returns at the first step that fails.
write_launchdaemon_stop(job_definition, path, fs, ld, env) ==
  LET fs1 == AfterWrite(job_definition, path, fs, env)
      ld1 == AfterLoad(path, fs1, ld, env)
  IN IF env.write # "written"
     THEN [files |-> fs1, loaded |-> ld, success |-> FALSE,
           calls |-> <<"open">>]
     ELSE IF ~env.chmod
     THEN [files |-> fs1, loaded |-> ld, success |-> FALSE,
           calls |-> <<"open", "chmod">>]
     ELSE IF ~env.chown
     THEN [files |-> fs1, loaded |-> ld, success |-> FALSE,
           calls |-> <<"open", "chmod", "chown">>]
     ELSE [files |-> fs1, loaded |-> ld1, success |-> env.returncode = 0,
           calls |-> <<"open", "chmod", "chown", "launchctl load">>]

\* A write_launchdaemon that deletes the file again when a step failed.
write_launchdaemon_rollback(job_definition, path, fs, ld, env) ==
  LET fs1 == AfterWrite(job_definition, path, fs, env)
      ld1 == AfterLoad(path, fs1, ld, env)
      success == env.write = "written" /\ env.chmod /\ env.chown
                 /\ env.returncode = 0
  IN [files |-> IF success THEN fs1
                ELSE [q \in DOMAIN fs1 \ {path} |-> fs1[q]],
      loaded |-> ld1, success |-> success,
      calls |-> <<"open", "chmod", "chown", "launchctl load">>]

\* A write_launchdaemon that reports the result of its last step only.
write_launchdaemon_last(job_definition, path, fs, ld, env) ==
  LET fs1 == AfterWrite(job_definition, path, fs, env)
      ld1 == AfterLoad(path, fs1, ld, env)
  IN [files |-> fs1, loaded |-> ld1, success |-> ~(env.returncode > 0),
      calls |-> <<"open", "chmod", "chown", "launchctl load">>]

write_launchdaemon(job_definition, path, fs, ld, env) ==
  LET fs1 == AfterWrite(job_definition, path, fs, env)
      success1 == env.write = "written"
      success2 == IF env.chmod THEN success1 ELSE FALSE
      success3 == IF env.chown THEN success2 ELSE FALSE
      ld1 == AfterLoad(path, fs1, ld, env)
      success4 == IF env.returncode > 0 THEN FALSE ELSE success3
  IN [files |-> fs1, loaded |-> ld1, success |-> success4,
      calls |-> <<"open", "chmod", "chown", "launchctl load">>]

(***************************************************************************)
(* Prompt mode: lines 373-383.                                             *)
(***************************************************************************)
Persist(p) ==
  /\ inv[p].pc = "persist"
  /\ \E env \in PersistEnvs :
       /\ Feasible(inv[p].ld_path, files, env)
       /\ LET w == write_launchdaemon(inv[p].daemon[1], inv[p].ld_path,
                                      files, loaded, env)
              called == [inv[p] EXCEPT !.calls = w.calls, !.env = Some(env)]
          IN /\ files' = w.files
             /\ loaded' = w.loaded
             /\ inv' = [inv EXCEPT ![p] =
                          IF w.success
                          THEN Exit(IF ShowConfirm(inv[p].secs[1])
                                    THEN display_confirm(called,
                                                         inv[p].datestring[1])
                                    ELSE called, 0)
                          ELSE Exit(display_error(called), 1)]
             /\ orphans' = IF env.write = "written" /\ ~w.success
                           THEN orphans \cup {inv[p].ld_path}
                           ELSE IF w.success
                           THEN orphans \ {inv[p].ld_path}
                           ELSE orphans
  /\ UNCHANGED <<clock, prev, started, ticks>>

(***************************************************************************)
(* Cleanup mode: lines 385-405.                                            *)
(***************************************************************************)
Cleanup(p) ==
  /\ inv[p].pc = "cleanup"
  /\ inv' = [inv EXCEPT ![p] =
               IF Exists(inv[p].ld_path) THEN [@ EXCEPT !.pc = "remove"]
               ELSE Exit([@ EXCEPT !.result = "NotFound"], 0)]
  /\ orphans' = orphans \ {inv[p].ld_path}
  /\ UNCHANGED <<files, loaded, clock, prev, started, ticks>>

\* A removal that leaves the file in place.
RemovedNothing(path, fs) == fs

\* os.remove(path): the file system without the file.
Removed(path, fs) == [q \in DOMAIN fs \ {path} |-> fs[q]]

\* A removal that also unregisters the job.
RemoveUnloading(p) ==
  /\ inv[p].pc = "remove"
  /\ \E ok \in BOOLEAN :
       /\ ok => Exists(inv[p].ld_path)
       /\ files' = IF ok THEN Removed(inv[p].ld_path, files) ELSE files
       /\ loaded' = IF ok THEN loaded \ {inv[p].ld_path} ELSE loaded
       /\ inv' = [inv EXCEPT ![p] =
                    Exit([@ EXCEPT !.result = IF ok THEN "Removed"
                                              ELSE "RemoveFailed"], 0)]
  /\ UNCHANGED <<clock, prev, started, ticks, orphans>>

\* Lines 394-400: os.remove may raise OSError, which is caught; the exit
\* status is 0 either way.
Remove(p) ==
  /\ inv[p].pc = "remove"
  /\ \E ok \in BOOLEAN :
       /\ ok => Exists(inv[p].ld_path)
       /\ files' = IF ok THEN Removed(inv[p].ld_path, files) ELSE files
       /\ inv' = [inv EXCEPT ![p] =
                    Exit([@ EXCEPT !.result = IF ok THEN "Removed"
                                              ELSE "RemoveFailed"], 0)]
  /\ UNCHANGED <<loaded, clock, prev, started, ticks, orphans>>

(***************************************************************************)
(* The environment and the specification.                                  *)
(***************************************************************************)
Tick ==
  /\ ticks < MaxTicks
  /\ \E d \in TickSeconds : clock' = clock + d
  /\ ticks' = ticks + 1
  /\ UNCHANGED <<files, loaded, inv, prev, started, orphans>>

Init ==
  /\ files = <<>>
  /\ loaded = {}
  /\ clock \in StartInstants
  /\ inv = [p \in Procs |-> IdleInv]
  /\ prev = NoPrev
  /\ started = 0
  /\ ticks = 0
  /\ orphans = {}

\* Invocations run to completion, one after the other.
Next ==
  \/ \E argv \in Argvs : Start(1, argv)
  \/ \E p \in Procs : CheckUser(p)
  \/ \E p \in Procs : CheckExists(p)
  \/ \E p \in Procs : CheckApps(p)
  \/ \E p \in Procs : Prompt(p)
  \/ \E p \in Procs : Build(p)
  \/ \E p \in Procs : Persist(p)
  \/ \E p \in Procs : Cleanup(p)
  \/ \E p \in Procs : Remove(p)
  \/ Tick

Spec == Init /\ [][Next]_vars

\* Two invocations, begun at any of the instants of ClockInstants.
InitClock ==
  /\ files = <<>>
  /\ loaded = {}
  /\ clock \in ClockInstants
  /\ inv = [p \in Procs |-> IdleInv]
  /\ prev = NoPrev
  /\ started = MaxInvocations - 2
  /\ ticks = 0
  /\ orphans = {}

SpecClock == InitClock /\ [][Next]_vars

\* display_prompt and calculate_deferment over their inputs: an invocation
\* with no arguments that has passed the guards gets any output of the
\* dialog tool, at any of the instants of InputInstants.
Decode(p) ==
  LET args == build_argparser(<<>>)
      ld_label == LdLabel(args)
  IN /\ inv[p].pc = "idle"
     /\ \E result \in ToolResults :
          inv' = [inv EXCEPT ![p] =
                    Prompted([IdleInv EXCEPT !.pc = "prompt",
                                             !.args = args,
                                             !.ld_label = ld_label,
                                             !.ld_path = LdPath(ld_label),
                                             !.consoleuser = Some("alice"),
                                             !.running_apps = Some({"Finder"})],
                             result)]
     /\ UNCHANGED <<files, loaded, clock, prev, started, ticks, orphans>>

InitInputs ==
  /\ files = <<>>
  /\ loaded = {}
  /\ clock \in InputInstants
  /\ inv = [p \in Procs |-> IdleInv]
  /\ prev = NoPrev
  /\ started = 0
  /\ ticks = 0
  /\ orphans = {}

NextInputs ==
  \/ Decode(1)
  \/ \E p \in Procs : Build(p)

SpecInputs == InitInputs /\ [][NextInputs]_vars

\* The arguments of overlapping invocations: both modes, for the default
\* label and for another one.
OverlapArgvs ==
  { <<>>, <<"cleanup">>,
    <<"", "test.pending", "nightly_updates">>, <<"cleanup", "test.pending">> }

\* Two invocations that overlap: each is a process of its own, and a step
\* of one may come between any two steps of the other.
NextOverlap ==
  \/ \E p \in Procs, argv \in OverlapArgvs : Start(p, argv)
  \/ \E p \in Procs : CheckUser(p)
  \/ \E p \in Procs : CheckExists(p)
  \/ \E p \in Procs : CheckApps(p)
  \/ \E p \in Procs : Prompt(p)
  \/ \E p \in Procs : Build(p)
  \/ \E p \in Procs : Persist(p)
  \/ \E p \in Procs : Cleanup(p)
  \/ \E p \in Procs : Remove(p)

InitOverlap ==
  /\ files = <<>>
  /\ loaded = {}
  /\ clock \in StartInstants
  /\ inv = [p \in Procs |-> IdleInv]
  /\ prev = NoPrev
  /\ started = MaxInvocations - 2
  /\ ticks = 0
  /\ orphans = {}

SpecOverlap == InitOverlap /\ [][NextOverlap]_vars

(***************************************************************************)
(* Properties.                                                             *)
(***************************************************************************)
Done(p) == inv[p].pc = "done"

PromptDone(p) == Done(p) /\ inv[p].args.mode = "prompt"

CleanupDone(p) == Done(p) /\ inv[p].args.mode = "cleanup"

\* The record of the invocation's label is as it was when the invocation began.
RecordUnchanged(p) ==
  LET path == inv[p].ld_path
      before == inv[p].at_start.files
  IN IF path \in DOMAIN before
     THEN Exists(path) /\ files[path] = before[path]
     ELSE ~Exists(path)

\* C1: a prompt-mode invocation that begins with the record of its label
\* present invokes no dialog at any point, ends with exit status 1 and the
\* record as it was, and when a user is logged in the denial it prints is
\* the already-deferred one.
C1_ExistingRecordDenies ==
  \A p \in Procs :
    (inv[p].args.mode = "prompt" /\ ExistedAtStart(inv[p])) =>
      /\ inv[p].dialogs = <<>>
      /\ RecordUnchanged(p)
      /\ Done(p) =>
           /\ inv[p].exit = Some(1)
           /\ inv[p].consoleuser # None => inv[p].denial = "already_deferred"

C1_Witness ==
  \E p \in Procs :
    /\ PromptDone(p) /\ ExistedAtStart(inv[p])
    /\ inv[p].consoleuser # None
    /\ inv[p].denial = "already_deferred"

\* The names of the deny-list, as a set.
BlockingNames == {"Keynote", "Microsoft PowerPoint"}

\* C2: a prompt-mode invocation that reads a set of running applications
\* holding a name of the deny-list ends with exit status 1, no dialog
\* invoked and no record written; one that reads a set holding none of them
\* is not denied by the blocking-app guard.
C2_BlockingApps ==
  \A p \in Procs :
    inv[p].running_apps # None =>
      IF inv[p].running_apps[1] \cap BlockingNames # {}
      THEN /\ PromptDone(p)
           /\ inv[p].exit = Some(1)
           /\ inv[p].denial = "blocked_by_app"
           /\ inv[p].dialogs = <<>>
           /\ files = inv[p].at_start.files
      ELSE /\ inv[p].denial = ""
           /\ inv[p].pc # "check_apps"
           /\ Done(p) => Len(inv[p].dialogs) >= 1

C2_Witness ==
  \E p \in Procs :
    /\ PromptDone(p)
    /\ inv[p].running_apps = Some({"Microsoft PowerPoint", "Safari"})
    /\ inv[p].denial = "blocked_by_app"

C2_WitnessPass ==
  \E p \in Procs :
    /\ PromptDone(p)
    /\ inv[p].running_apps = Some({"Finder", "keynote"})
    /\ inv[p].exit = Some(0)

\* C3: a step changes the record files only by creating a record where none
\* is (write_launchdaemon is called only with no record at the path, and an
\* existing record is never rewritten) or by a cleanup-mode invocation of the
\* same label deleting one: between two writes of a record there is a
\* cleanup that removed it.
C3_NoWriteOverRecord ==
  [][ /\ \A p \in Procs :
           (inv[p].pc = "persist" /\ inv'[p].pc = "done") =>
             ~Exists(inv[p].ld_path)
      /\ \A path \in DOMAIN files :
           IF path \in DOMAIN files'
           THEN files'[path] = files[path]
           ELSE \E p \in Procs :
                  /\ inv[p].args.mode = "cleanup" /\ inv[p].pc = "remove"
                  /\ inv[p].ld_path = path /\ inv'[p].result = "Removed"
    ]_vars

\* A record written after a cleanup removed the one before it.
C3_Witness ==
  \E p \in Procs :
    /\ PromptDone(p) /\ inv[p].exit = Some(0)
    /\ Exists(inv[p].ld_path)
    /\ prev.mode = "cleanup" /\ prev.result = "Removed"
    /\ prev.ld_path = inv[p].ld_path

\* Two cleanup-mode invocations of one label in a row, the first of which
\* began with the record present.
TwoCleanups(p) ==
  /\ CleanupDone(p)
  /\ prev.mode = "cleanup"
  /\ prev.ld_path = inv[p].ld_path

\* C4 as stated: the first of two cleanups in a row reports Removed, the
\* second NotFound, and both end with exit status 0.
C4_AsStated ==
  \A p \in Procs :
    TwoCleanups(p) =>
      /\ prev.result = "Removed"
      /\ inv[p].result = "NotFound"
      /\ inv[p].exit = Some(0)

\* C4, amended: every cleanup-mode invocation ends with exit status 0; one
\* that reports Removed leaves no record and one that reports NotFound began
\* with none; of two in a row, when the first removed the record the second
\* reports NotFound, and when the first could not remove it (os.remove
\* raised) the record is still there for the second to find.
C4_CleanupTwice ==
  \A p \in Procs :
    /\ CleanupDone(p) =>
         /\ inv[p].exit = Some(0)
         /\ inv[p].dialogs = <<>>
         /\ inv[p].result = "Removed" =>
              (ExistedAtStart(inv[p]) /\ ~Exists(inv[p].ld_path))
         /\ inv[p].result = "NotFound" <=> ~ExistedAtStart(inv[p])
         /\ inv[p].result = "RemoveFailed" => RecordUnchanged(p)
    /\ TwoCleanups(p) =>
         /\ prev.result \in {"Removed", "RemoveFailed"}
         /\ prev.result = "Removed" => inv[p].result = "NotFound"
         /\ prev.result = "RemoveFailed" =>
              inv[p].result \in {"Removed", "RemoveFailed"}

C4_Witness ==
  \E p \in Procs :
    TwoCleanups(p) /\ prev.result = "Removed" /\ inv[p].result = "NotFound"

\* Day, hour and minute are the day of the month, the hour and the minute of
\* instant t: some month of some year has that day, and the instant of that
\* day, hour and minute with the seconds of t is t.
MatchesInstant(day, hour, minute, t) ==
  /\ hour \in 0..23
  /\ minute \in 0..59
  /\ \E y \in 2023..2025, mo \in 1..12 :
       /\ day \in 1..DaysInMonth(y, mo)
       /\ Instant(y, mo, day, hour, minute, t % 60) = t

\* C5: for a decoded choice n >= 0 the job definition carries exactly one of
\* RunAtLoad and StartCalendarInterval; RunAtLoad if and only if n = 0;
\* otherwise the Day, Hour and Minute of StartCalendarInterval are those of
\* the instant read at the conversion plus n seconds; and that definition is
\* what a successful write puts in the record.
C5_ScheduleVariant ==
  \A p \in Procs :
    (inv[p].daemon # None /\ inv[p].secs[1] >= 0) =>
      LET d == inv[p].daemon[1]
          n == inv[p].secs[1]
          immediate == "RunAtLoad" \in DOMAIN d
          calendar == "StartCalendarInterval" \in DOMAIN d
      IN /\ immediate # calendar
         /\ immediate <=> n = 0
         /\ immediate => (d.RunAtLoad = TRUE /\ inv[p].read_at = None)
         /\ calendar =>
              /\ DOMAIN d.StartCalendarInterval = {"Day", "Hour", "Minute"}
              /\ inv[p].read_at # None
              /\ MatchesInstant(d.StartCalendarInterval.Day,
                                d.StartCalendarInterval.Hour,
                                d.StartCalendarInterval.Minute,
                                inv[p].read_at[1] + n)
         /\ (inv[p].env # None /\ inv[p].env[1].write = "written") =>
              (Exists(inv[p].ld_path)
               /\ files[inv[p].ld_path].plist = Some(d))

\* One hour chosen 30 seconds before February: the trigger is day 1, 0:59.
C5_Witness ==
  \E p \in Procs :
    /\ PromptDone(p) /\ inv[p].secs = Some(3600)
    /\ inv[p].read_at = Some(Instant(2023, 1, 31, 23, 59, 30))
    /\ Exists(inv[p].ld_path)
    /\ files[inv[p].ld_path].plist # None
    /\ files[inv[p].ld_path].plist[1].StartCalendarInterval
         = [Day |-> 1, Hour |-> 0, Minute |-> 59]

C5_WitnessImmediate ==
  \E p \in Procs :
    /\ PromptDone(p) /\ inv[p].secs = Some(0)
    /\ Exists(inv[p].ld_path)
    /\ files[inv[p].ld_path].plist # None
    /\ "RunAtLoad" \in DOMAIN files[inv[p].ld_path].plist[1]

\* The answers of the dialog tool that make the prompt fail: the launch
\* raised, an error value, or an output that is no number.
PromptFailedAnswer(h) ==
  \/ h.raised
  \/ h.out \in { <<"2">>, <<"3">>, <<"2","3","9">>, <<"2","4","3">>,
                <<"2","5","0">>, <<"2","5","5">> }
  \/ h.out \in JunkOutputs

\* Every step of persistence succeeded.
AllStepsOk(env) ==
  env.write = "written" /\ env.chmod /\ env.chown /\ env.returncode = 0

\* C6: when the guards pass and the dialog's answer makes the prompt fail,
\* the invocation invokes the error dialog after the prompt, ends with exit
\* status 1, does not call write_launchdaemon, and leaves the record files
\* and the registered jobs as they were when it began.
C6_PromptFailed ==
  \A p \in Procs :
    (inv[p].helper # None /\ PromptFailedAnswer(inv[p].helper[1])) =>
      /\ PromptDone(p)
      /\ inv[p].secs = None
      /\ inv[p].dialogs = <<Dialog("prompt", None), Dialog("error", None)>>
      /\ inv[p].exit = Some(1)
      /\ inv[p].calls = <<>> /\ inv[p].env = None /\ inv[p].daemon = None
      /\ files = inv[p].at_start.files
      /\ loaded = inv[p].at_start.loaded

C6_Witness ==
  \E p \in Procs :
    /\ PromptDone(p)
    /\ inv[p].helper = Some([raised |-> FALSE, out |-> <<"2","4","3">>])
    /\ inv[p].exit = Some(1)
    /\ Len(inv[p].dialogs) = 2

\* C7: when the guards pass, the dialog prints '1' and every step of
\* persistence succeeds, the choice is 0 seconds, the record holds the job
\* with RunAtLoad and no StartCalendarInterval, the prompt is the only dialog
\* invoked, and the exit status is 0; '1' is never decoded as a failure.
C7_StartNow ==
  \A p \in Procs :
    (inv[p].helper = Some([raised |-> FALSE, out |-> <<"1">>])) =>
      /\ inv[p].secs = Some(0)
      /\ inv[p].pc \in {"build", "persist", "done"}
      /\ (Done(p) /\ inv[p].env # None /\ AllStepsOk(inv[p].env[1])) =>
           /\ inv[p].exit = Some(0)
           /\ inv[p].dialogs = <<Dialog("prompt", None)>>
           /\ Exists(inv[p].ld_path)
           /\ files[inv[p].ld_path].plist = inv[p].daemon
           /\ "RunAtLoad" \in DOMAIN inv[p].daemon[1]
           /\ inv[p].daemon[1].RunAtLoad = TRUE
           /\ "StartCalendarInterval" \notin DOMAIN inv[p].daemon[1]

C7_Witness ==
  \E p \in Procs :
    /\ PromptDone(p)
    /\ inv[p].helper = Some([raised |-> FALSE, out |-> <<"1">>])
    /\ inv[p].env # None /\ AllStepsOk(inv[p].env[1])
    /\ inv[p].exit = Some(0)

\* The offered delays that defer.
OfferedDelays == {300, 1800, 3600, 14400, 43200, 604800}

\* The dialog tool ran and printed option n followed by button 1.
Selected(h, n) == ~h.raised /\ h.out = NatDigits(n * 10 + 1)

\* The rendering names the month, the day, the hour and the minute of
\* instant t.
DateMatches(date, t) ==
  \E y \in 2023..2025, mo \in 1..12 :
    /\ date.B = MonthName(mo)
    /\ date.d \in 1..DaysInMonth(y, mo)
    /\ date.I \in 1..12
    /\ date.p \in {"AM", "PM"}
    /\ Instant(y, mo, date.d,
               (date.I % 12) + (IF date.p = "PM" THEN 12 ELSE 0),
               date.M[1] * 10 + date.M[2], t % 60) = t

\* C8: when the record is absent, a user is logged in, no blocking
\* application runs, the user selects an offered delay n > 0 and every step
\* of persistence succeeds, the invocation writes a record whose
\* StartCalendarInterval is that of the instant read plus n, invokes the
\* confirmation dialog once, after the prompt, with the rendering of that
\* instant, and ends with exit status 0.  The confirmation dialog is invoked
\* in no other case.
C8_DeferredConfirmed ==
  \A p \in Procs :
    /\ \A n \in OfferedDelays :
         (Done(p) /\ inv[p].helper # None /\ Selected(inv[p].helper[1], n)
          /\ inv[p].env # None /\ AllStepsOk(inv[p].env[1])) =>
           /\ inv[p].exit = Some(0)
           /\ Exists(inv[p].ld_path)
           /\ files[inv[p].ld_path].plist = inv[p].daemon
           /\ LET sci == inv[p].daemon[1].StartCalendarInterval
              IN MatchesInstant(sci.Day, sci.Hour, sci.Minute,
                                inv[p].read_at[1] + n)
           /\ Len(inv[p].dialogs) = 2
           /\ inv[p].dialogs[1] = Dialog("prompt", None)
           /\ inv[p].dialogs[2].kind = "confirm"
           /\ DateMatches(inv[p].dialogs[2].date[1], inv[p].read_at[1] + n)
           /\ inv[p].dialogs[2].date[1].d
                = inv[p].daemon[1].StartCalendarInterval.Day
    /\ \A i \in 1..Len(inv[p].dialogs) :
         inv[p].dialogs[i].kind = "confirm" =>
           /\ i = 2 /\ Len(inv[p].dialogs) = 2
           /\ PromptDone(p) /\ inv[p].exit = Some(0)
           /\ inv[p].denial = ""
           /\ inv[p].env # None /\ AllStepsOk(inv[p].env[1])
           /\ inv[p].helper # None
           /\ \E n \in OfferedDelays : Selected(inv[p].helper[1], n)

\* One hour chosen at 11:59:40 on 28 February 2024: confirmed for 12:59 PM.
C8_Witness ==
  \E p \in Procs :
    /\ PromptDone(p) /\ inv[p].exit = Some(0)
    /\ inv[p].helper # None /\ Selected(inv[p].helper[1], 3600)
    /\ inv[p].read_at = Some(Instant(2024, 2, 28, 11, 59, 40))
    /\ inv[p].dialogs[2] =
         Dialog("confirm", Some([B |-> "February", d |-> 28, I |-> 12,
                                 M |-> <<5, 9>>, p |-> "PM"]))

C11_DecodingTotal ==
  \A p \in Procs :
    inv[p].helper # None =>
      LET h == inv[p].helper[1]
          s == inv[p].secs
      IN /\ s = None \/ (Len(s) = 1 /\ s[1] \in Nat)
         /\ inv[p].pc \in {"build", "persist", "done"}
         /\ s = None => (inv[p].pc = "done" /\ inv[p].exit = Some(1))
         /\ (s # None /\ inv[p].env = None)
              => inv[p].pc \in {"build", "persist"}
         /\ ~h.raised => ~inv[p].uncaught
         /\ h.raised => s = None
         /\ (~h.raised /\ InList(h.out, error_values)) => s = None
         /\ (~h.raised /\ h.out = <<"1">>) => s = Some(0)
         /\ \A k \in 1..Len(GUI_DEFER_OPTIONS) :
              (~h.raised /\ h.out = OptionOutput(GUI_DEFER_OPTIONS[k]))
                => s = Some(DigitsValue(GUI_DEFER_OPTIONS[k]))

\* The longest option was chosen and decoded.
C11_Witness ==
  \E p \in Procs :
    /\ inv[p].helper = Some([raised |-> FALSE,
                             out |-> <<"6", "0", "4", "8", "0", "0", "1">>])
    /\ inv[p].secs = Some(604800)

(***************************************************************************)
(* C12.  The label stored inside a persisted record is the label the name   *)
(* of its file is derived from, and a blank or omitted label is replaced by *)
(* the default label in both places.                                        *)
(***************************************************************************)
C12_LabelNamesFile ==
  /\ \A path \in DOMAIN files :
       files[path].plist # None =>
         path = LdPath(files[path].plist[1]["Label"])
  /\ \A p \in Procs :
       inv[p].daemon # None =>
         /\ inv[p].daemon[1]["Label"] = inv[p].ld_label
         /\ inv[p].args.launchdaemon_label = ""
              => inv[p].daemon[1]["Label"] = DEFAULT_LD_LABEL

\* A record written for a blank label: the file is named after the default
\* label and the record inside it carries the blank one.
C12_BlankLabelStored ==
  \E p \in Procs :
    /\ inv[p].args.launchdaemon_label = ""
    /\ inv[p].ld_path = LdPath(DEFAULT_LD_LABEL)
    /\ Exists(inv[p].ld_path)
    /\ files[inv[p].ld_path].plist # None
    /\ files[inv[p].ld_path].plist[1]["Label"] = ""

(***************************************************************************)
(* C13.  The exit codes.  As stated: a prompt-mode invocation stopped by a  *)
(* guard (no session, record present, blocking application) ends with exit  *)
(* status 0, as a cleanup with nothing to remove does, and exit status 1    *)
(* comes only from failures, never from a guard.                            *)
(***************************************************************************)
C13_AsStated ==
  \A p \in Procs :
    Done(p) =>
      /\ inv[p].denial # "" => inv[p].exit = Some(0)
      /\ inv[p].result = "NotFound" => inv[p].exit = Some(0)
      /\ inv[p].exit = Some(1) => inv[p].denial = ""

\* C13, as the code has it: a prompt-mode invocation stopped by a guard ends
\* with exit status 1, no dialog invoked and nothing changed; every cleanup,
\* the one with nothing to remove among them, ends with exit status 0; the
\* exit status is 0 or 1, and 1 comes only from a prompt-mode invocation,
\* by a guard, a failed prompt or a failed persistence.
C13_ExitCodes ==
  \A p \in Procs :
    Done(p) =>
      /\ inv[p].exit \in {Some(0), Some(1)}
      /\ inv[p].denial # "" =>
           /\ inv[p].exit = Some(1)
           /\ inv[p].dialogs = <<>>
           /\ files = inv[p].at_start.files
           /\ loaded = inv[p].at_start.loaded
      /\ inv[p].args.mode = "cleanup" => inv[p].exit = Some(0)
      /\ inv[p].exit = Some(1) =>
           /\ inv[p].args.mode = "prompt"
           /\ \/ inv[p].denial # ""
              \/ inv[p].helper # None /\ inv[p].secs = None
              \/ inv[p].env # None /\ ~AllStepsOk(inv[p].env[1])

\* A guard stopped a prompt-mode invocation, which ended with exit status 1.
C13_Witness ==
  \E p \in Procs :
    /\ PromptDone(p)
    /\ inv[p].denial = "blocked_by_app"
    /\ inv[p].exit = Some(1)

(***************************************************************************)
(* C14.  The guards of a prompt-mode invocation are evaluated in the order  *)
(* session, record, blocking applications, and the first that fails ends    *)
(* the invocation: with no session the denial is the no-session one whether *)
(* or not the record exists, and neither the record nor the applications    *)
(* are looked at; with a session and the record present the denial is the   *)
(* already-deferred one and the applications are not read; the applications *)
(* are read, and the blocking denial reported, only with a session and no   *)
(* record; the prompt dialog is invoked only after all three have passed.   *)
(***************************************************************************)
C14_GuardOrder ==
  \A p \in Procs :
    inv[p].args.mode = "prompt" =>
      LET i == inv[p]
          session == i.consoleuser # None
          record == ExistedAtStart(i)
          blocked == i.running_apps # None
                     /\ i.running_apps[1] \cap BlockingNames # {}
      IN /\ i.pc \in {"check_exists", "check_apps", "prompt"} => i.denial = ""
         /\ i.pc = "check_exists" => session /\ i.running_apps = None
         /\ i.pc = "check_apps" => session /\ ~record /\ i.running_apps = None
         /\ i.pc = "prompt" => session /\ ~record /\ i.running_apps # None
                               /\ ~blocked
         /\ i.running_apps # None => session /\ ~record
         /\ (Done(p) /\ ~session) => i.denial = "no_session"
         /\ (Done(p) /\ session /\ record) => i.denial = "already_deferred"
         /\ (Done(p) /\ session /\ ~record /\ blocked)
              => i.denial = "blocked_by_app"
         /\ i.denial = "no_session" => ~session /\ i.running_apps = None
         /\ i.denial = "already_deferred"
              => session /\ record /\ i.running_apps = None
         /\ i.denial = "blocked_by_app" => session /\ ~record /\ blocked
         /\ i.dialogs # <<>> =>
              /\ session /\ ~record /\ i.running_apps # None /\ ~blocked
              /\ i.denial = ""
              /\ i.dialogs[1].kind = "prompt"

\* With no session and the record present, the denial is the no-session one.
C14_Witness ==
  \E p \in Procs :
    /\ PromptDone(p)
    /\ ExistedAtStart(inv[p])
    /\ inv[p].consoleuser = None
    /\ inv[p].denial = "no_session"

(***************************************************************************)
(* C15.  The check for the record and the writing of it are not one step:   *)
(* of two overlapping prompt-mode invocations for the same label both can   *)
(* pass the check before either writes, and then both prompt and both       *)
(* write.  An invocation that has passed the check writes whatever has      *)
(* appeared meanwhile: when its write succeeds the record holds its own     *)
(* job afterwards, so the later write replaces the earlier schedule.        *)
(***************************************************************************)
C15_LaterWriteReplaces ==
  [][\A p \in Procs :
       (inv[p].pc = "persist" /\ inv'[p].pc = "done"
        /\ inv'[p].env[1].write = "written")
         => /\ inv[p].ld_path \in DOMAIN files'
            /\ files'[inv[p].ld_path] = [plist |-> inv[p].daemon]]_vars

\* Both invocations for one label prompted and wrote with no record at the
\* beginning and no cleanup at all; the record holds the job of the second,
\* which differs from the job of the first.
C15_Witness ==
  /\ \A p \in Procs :
       /\ PromptDone(p)
       /\ inv[p].ld_path = LdPath(DEFAULT_LD_LABEL)
       /\ inv[p].at_start.files = <<>>
       /\ inv[p].dialogs # <<>> /\ inv[p].dialogs[1].kind = "prompt"
       /\ inv[p].env # None /\ inv[p].env[1].write = "written"
       /\ inv[p].exit = Some(0)
  /\ inv[1].daemon # inv[2].daemon
  /\ files[LdPath(DEFAULT_LD_LABEL)] = [plist |-> inv[2].daemon]

\* The path of the record of the label an invocation was given.
OwnPath(i) ==
  <<"/Library/LaunchDaemons",
    IF i.args.launchdaemon_label = "" THEN DEFAULT_LD_LABEL
    ELSE i.args.launchdaemon_label,
    ".plist">>

\* The record at path and the registration of its job are the same before
\* and after the step.
SameAt(path) ==
  /\ (path \in DOMAIN files) <=> (path \in DOMAIN files')
  /\ path \in DOMAIN files => files'[path] = files[path]
  /\ (path \in loaded) <=> (path \in loaded')

(***************************************************************************)
(* C16.  Invocations for labels with different paths do not interfere, in   *)
(* every interleaving of prompt and cleanup invocations: a step changes the *)
(* record (and the registration) of a path only when it is a step of an     *)
(* invocation for the label of that path, and what an invocation decides    *)
(* from the file system depends on the record of its own label only: the    *)
(* already-deferred denial is given exactly when its own record exists, and *)
(* the cleanup finds nothing exactly when its own record does not exist,    *)
(* whatever other records exist.                                            *)
(***************************************************************************)
C16_LabelsIsolated ==
  [][/\ \A path \in DOMAIN files \cup DOMAIN files' \cup loaded \cup loaded' :
          \/ SameAt(path)
          \/ \E p \in Procs : inv'[p] # inv[p] /\ OwnPath(inv[p]) = path
     /\ \A p \in Procs :
          /\ (inv[p].pc = "check_exists" /\ inv'[p] # inv[p]) =>
               IF OwnPath(inv[p]) \in DOMAIN files
               THEN inv'[p].pc = "done" /\ inv'[p].denial = "already_deferred"
               ELSE inv'[p].pc = "check_apps" /\ inv'[p].denial = ""
          /\ (inv[p].pc = "cleanup" /\ inv'[p] # inv[p]) =>
               IF OwnPath(inv[p]) \in DOMAIN files
               THEN inv'[p].pc = "remove"
               ELSE inv'[p].pc = "done" /\ inv'[p].result = "NotFound"]_vars

\* While the record of one label exists, an invocation for another label
\* passed the check, prompted and wrote its own record; both records exist.
C16_Witness ==
  \E p, q \in Procs :
    /\ PromptDone(p) /\ PromptDone(q)
    /\ OwnPath(inv[p]) # OwnPath(inv[q])
    /\ OwnPath(inv[q]) \in DOMAIN inv[p].at_start.files
    /\ inv[p].exit = Some(0) /\ inv[q].exit = Some(0)
    /\ Exists(OwnPath(inv[p])) /\ Exists(OwnPath(inv[q]))
    /\ files[OwnPath(inv[p])] = [plist |-> inv[p].daemon]
    /\ files[OwnPath(inv[q])] = [plist |-> inv[q].daemon]

(***************************************************************************)
(* C17.  A cleanup-mode invocation changes nothing but the existence of the *)
(* record file of its own label: each of its steps leaves the registered    *)
(* jobs as they are (the job is not unloaded), leaves every other record as *)
(* it is, either leaves its own record or removes it, runs no command (the  *)
(* policy is not executed) and invokes no dialog.                           *)
(***************************************************************************)
C17_CleanupFrame ==
  [][\A p \in Procs :
       (inv[p].args.mode = "cleanup" /\ inv[p].pc \in {"cleanup", "remove"}
        /\ inv'[p] # inv[p])
         => /\ loaded' = loaded
            /\ clock' = clock
            /\ \/ files' = files
               \/ /\ OwnPath(inv[p]) \in DOMAIN files
                  /\ files' = [q \in DOMAIN files \ {OwnPath(inv[p])}
                                 |-> files[q]]
            /\ inv'[p].dialogs = <<>>
            /\ inv'[p].calls = <<>>
            /\ inv'[p].helper = None
            /\ inv'[p].daemon = None]_vars

\* A cleanup removed the record of a registered job: the file is gone and
\* the job is still registered.
C17_Witness ==
  \E p \in Procs :
    /\ CleanupDone(p)
    /\ inv[p].result = "Removed"
    /\ ~Exists(inv[p].ld_path)
    /\ inv[p].ld_path \in loaded
    /\ inv[p].dialogs = <<>>

(***************************************************************************)
(* C18.  After a prompt-mode invocation whose persistence failed with the   *)
(* file written (a permission step or the activation failed, exit status    *)
(* 1), every later prompt-mode invocation for the same label is denied, as  *)
(* long as no cleanup for the label has run: it invokes no dialog, ends     *)
(* with exit status 1 and leaves the record as it was, also when no job     *)
(* was registered.                                                          *)
(***************************************************************************)
C18_FailedPersistBlocks ==
  \A p \in Procs :
    (inv[p].args.mode = "prompt"
     /\ inv[p].ld_path \in inv[p].at_start.orphans) =>
      /\ inv[p].dialogs = <<>>
      /\ inv[p].helper = None
      /\ inv[p].env = None
      /\ RecordUnchanged(p)
      /\ inv[p].ld_path \in orphans
      /\ Done(p) =>
           /\ inv[p].exit = Some(1)
           /\ inv[p].denial \in {"no_session", "already_deferred"}

\* A prompt-mode invocation was denied by a record that a failed persistence
\* had left, with no job registered for it.
C18_Witness ==
  \E p \in Procs :
    /\ PromptDone(p)
    /\ inv[p].ld_path \in inv[p].at_start.orphans
    /\ inv[p].ld_path \notin loaded
    /\ inv[p].consoleuser # None
    /\ inv[p].denial = "already_deferred"
    /\ inv[p].exit = Some(1)

RECURSIVE FirstMatchFrom(_, _, _, _, _)
FirstMatchFrom(daynum, now, day, hour, minute) ==
  LET t == daynum * 86400 + hour * 3600 + minute * 60
  IN IF t > now /\ MatchesInstant(day, hour, minute, t) THEN t
     ELSE FirstMatchFrom(daynum + 1, now, day, hour, minute)

FirstMatch(now, day, hour, minute) ==
  FirstMatchFrom(now \div 86400, now, day, hour, minute)

(***************************************************************************)
(* C20.  For every offered delay n > 0 and every instant now at which the   *)
(* job is built, in any month, the first instant after now whose day of the *)
(* month, hour and minute are those of the StartCalendarInterval is the     *)
(* start of the minute that holds now + n: the job fires after now, no      *)
(* later than now + n and less than 60 seconds before it, so leaving the    *)
(* month out of the trigger never lengthens the delay of an offered option. *)
(***************************************************************************)
C20_FiresInTargetMinute ==
  \A p \in Procs :
    (inv[p].daemon # None /\ inv[p].read_at # None
     /\ inv[p].secs[1] \in OfferedDelays) =>
      LET now == inv[p].read_at[1]
          n == inv[p].secs[1]
          sci == inv[p].daemon[1]["StartCalendarInterval"]
          fire == FirstMatch(now, sci.Day, sci.Hour, sci.Minute)
      IN /\ fire = (now + n) - ((now + n) % 60)
         /\ fire > now
         /\ fire <= now + n
         /\ (now + n) - fire < 60

\* A week's delay chosen on 22 February 2023 at 09:15:59: the trigger names
\* day 1, and the first match is 1 March at 09:15.
C20_Witness ==
  \E p \in Procs :
    /\ inv[p].read_at = Some(Instant(2023, 2, 22, 9, 15, 59))
    /\ inv[p].secs = Some(604800)
    /\ inv[p].daemon # None
    /\ inv[p].daemon[1]["StartCalendarInterval"] =
         [Day |-> 1, Hour |-> 9, Minute |-> 15]
    /\ FirstMatch(Instant(2023, 2, 22, 9, 15, 59), 1, 9, 15)
         = Instant(2023, 3, 1, 9, 15, 0)

====
